---- MODULE Spec2Model ----
(***************************************************************************)
(* A model of bry2.py: the species-resolution and aggregation pipeline.    *)
(*                                                                         *)
(* main() is a sequential program; the variable pc is its position.  The   *)
(* three web services and the file system are the environment: a taxon     *)
(* record is drawn the first time a key is fetched and stays the same for  *)
(* the rest of the run, assessment and occurrence responses are drawn at   *)
(* each call.  Taxa 1..NumIds are answered freely; the taxa of the long    *)
(* batches and of the fixed synonym chain are answered in one way, so that *)
(* 51 merges stay within reach.  Python str values whose characters matter *)
(* (scientific name, citation) are sequences of code points; every other   *)
(* str is a TLA+ string of ASCII characters.                               *)
(*                                                                         *)
(* Spec is the run of main().  PureSpec calls is_valid_species, the record *)
(* construction of get_species_data and extract_habitats on their own, on  *)
(* arguments the runs of Spec do not reach.                                *)
(***************************************************************************)
EXTENDS Integers, Sequences, FiniteSets, TLC

\* Bounds of the exploration.
NumIds == 2
MaxBatch == 2

\* Program constants.
FlushEvery == 50
BatchCap == 300

----------------------------------------------------------------------------
(* Python values *)

None == [py |-> "None"]
Unbound == [py |-> "unbound"]
EmptyDict == <<>>

\* A str taxon id (a line of the ID file) and an int taxon id (a JSON number).
StrId(n) == <<"str", n>>
IntId(n) == <<"int", n>>
\* f"{taxon_id}" in the request URL: both forms format to the same digits.
KeyOf(taxon_id) == taxon_id[2]
\* str(taxon_id)
PyStr(taxon_id) == <<"str", taxon_id[2]>>

\* dict.get(key, default)
Get(d, k, default) == IF k \in DOMAIN d THEN d[k] ELSE default
\* d[k] = v
Put(d, k, v) == [x \in DOMAIN d \cup {k} |-> IF x = k THEN v ELSE d[x]]
\* d.update(e)
Update(d, e) == [x \in DOMAIN d \cup DOMAIN e |-> IF x \in DOMAIN e THEN e[x] ELSE d[x]]
\* del d[k] for each k of ks
Del(d, ks) == [x \in DOMAIN d \ ks |-> d[x]]
\* bool(x) of None or a dict
Truthy(x) == x # None /\ DOMAIN x # {}

Min(a, b) == IF a < b THEN a ELSE b

----------------------------------------------------------------------------
(* Text: sequences of code points *)

UnknownText == <<85, 110, 107, 110, 111, 119, 110>>      \* "Unknown"

\* str.isspace()
IsSpace(c) == c \in {9, 10, 11, 12, 13, 28, 29, 30, 31, 32, 133, 160}
\* str.isdigit(), code points below 256
IsDigit(c) == c \in (48..57) \cup {178, 179, 185}
\* \d of a str pattern, code points below 256
IsDecimal(c) == c \in 48..57
\* \w of a str pattern, code points below 256
IsWordChar(c) ==
    c \in (48..57) \cup (65..90) \cup (97..122) \cup {95, 170, 178, 179, 181, 185, 186}
          \cup (188..190) \cup (192..214) \cup (216..246) \cup (248..255)

\* len(s.split()): the number of maximal runs of non-space characters
TokenCount(s) ==
    Cardinality({p \in 1..Len(s) : ~IsSpace(s[p]) /\ (p = 1 \/ IsSpace(s[p - 1]))})

\* s.split()[k - 1]
Token(s, k) ==
    LET starts == {p \in 1..Len(s) : ~IsSpace(s[p]) /\ (p = 1 \/ IsSpace(s[p - 1]))}
        st == CHOOSE p \in starts : Cardinality({q \in starts : q <= p}) = k
        en == CHOOSE q \in st..Len(s) :
                  /\ \A r \in st..q : ~IsSpace(s[r])
                  /\ (q = Len(s) \/ IsSpace(s[q + 1]))
    IN SubSeq(s, st, en)

\* s.startswith("SH")
StartsWithSH(s) == Len(s) >= 2 /\ s[1] = 83 /\ s[2] = 72

\* re.search(r"\b\d{4}\b$", published): the match, or <<>> when there is none.
\* $ matches at the end and before a newline that ends the string.
EndYear(s) ==
    LET ends == {e \in {Len(s), Len(s) - 1} :
                    /\ e >= 4
                    /\ (e = Len(s) \/ s[Len(s)] = 10)
                    /\ \A p \in (e - 3)..e : IsDecimal(s[p])
                    /\ (e = 4 \/ ~IsWordChar(s[e - 4]))}
    IN IF ends = {} THEN <<>>
       ELSE LET e == CHOOSE x \in ends : TRUE IN SubSeq(s, e - 3, e)

\* re.findall(r"\((\d+)\)", published): the first group, or <<>> when the list is empty
FirstParenDigits(s) ==
    LET RunEnd(p) == CHOOSE q \in p..Len(s) :
                         /\ \A r \in (p + 1)..q : IsDecimal(s[r])
                         /\ (q = Len(s) \/ ~IsDecimal(s[q + 1]))
        hits == {p \in 1..Len(s) :
                    /\ s[p] = 40
                    /\ RunEnd(p) > p
                    /\ RunEnd(p) < Len(s)
                    /\ s[RunEnd(p) + 1] = 41}
    IN IF hits = {} THEN <<>>
       ELSE LET p == CHOOSE x \in hits : \A y \in hits : x <= y
            IN SubSeq(s, p + 1, RunEnd(p))

\* The year with the parenthesized run tried first
Discovered_ParenFirst(published) ==
    IF FirstParenDigits(published) # <<>> THEN FirstParenDigits(published)
    ELSE IF EndYear(published) # <<>> THEN EndYear(published)
    ELSE UnknownText

\* The discovered year of a citation
Discovered(published) ==
    IF EndYear(published) # <<>> THEN EndYear(published)
    ELSE IF FirstParenDigits(published) # <<>> THEN FirstParenDigits(published)
    ELSE UnknownText

----------------------------------------------------------------------------
(* The taxon lookup service (GBIF species) *)

NameLong == <<65, 98, 32, 99, 32, 72>>                   \* "Ab c H"
NameShort == <<65, 98, 32, 99>>                          \* "Ab c"
NameOther == <<67, 100, 32, 101, 32, 72>>                \* "Cd e H"
NameCode == <<83, 72, 49>>                               \* "SH1"
NameBulk == <<90, 122, 32, 121, 32, 72>>                 \* "Zz y H"
NameChain == <<88, 120, 32, 119, 32, 72>>                \* "Xx w H"
PubEnd == <<72, 32, 49, 56, 48, 49>>                     \* "H 1801"
PubParen == <<77, 252, 32, 40, 49, 56, 53, 48, 41>>      \* "Mü (1850)"

\* The taxa the environment answers freely; the uniform accepted taxa of a long
\* batch; and a fixed chain, 901 a synonym of 902, 902 of 903, 903 accepted
VariedKeys == 1..NumIds
BulkKeys == 101..(101 + FlushEvery)
ChainKeys == {901, 902, 903}
FixedKeys == BulkKeys \cup ChainKeys

Complete(name, genus, published) ==
    [taxonomicStatus |-> "ACCEPTED", scientificName |-> name, species |-> "sp",
     genus |-> genus, family |-> "Bryaceae", order |-> "Bryales",
     class |-> "Bryopsida", publishedIn |-> published]

\* JSON bodies of accepted taxa: complete ones, and ones with a field missing
AcceptedBodies ==
    {Complete(NameLong, "Bryum", PubEnd),
     Complete(NameOther, "Pohlia", PubParen),
     Complete(NameShort, "Bryum", PubEnd),
     Complete(NameCode, "Bryum", PubEnd)}
    \cup {Del(Complete(NameLong, "Bryum", PubEnd), {k}) :
              k \in {"species", "family", "order", "class", "genus"}}

SynonymBodies ==
    {[taxonomicStatus |-> "SYNONYM", scientificName |-> NameOther]}
    \cup {[taxonomicStatus |-> "HETEROTYPIC_SYNONYM", scientificName |-> NameOther,
           acceptedKey |-> k] : k \in VariedKeys}

\* What GET /species/{key} may answer for a key
TaxonResponses(key) ==
    IF key \in BulkKeys
    THEN {[status_code |-> 200, json |-> Complete(NameBulk, "Zygodon", PubEnd)]}
    ELSE IF key \in {901, 902}
    THEN {[status_code |-> 200,
           json |-> [taxonomicStatus |-> "SYNONYM", scientificName |-> NameOther,
                     acceptedKey |-> key + 1]]}
    ELSE IF key = 903
    THEN {[status_code |-> 200, json |-> Complete(NameChain, "Ulota", PubParen)]}
    ELSE {[status_code |-> 404]}
         \cup {[status_code |-> 200, json |-> b] : b \in AcceptedBodies \cup SynonymBodies}

\* "synonym" in taxonomic_status.lower(), over the statuses of the service
IsSynonymStatus(status) ==
    status \in {"SYNONYM", "HETEROTYPIC_SYNONYM", "HOMOTYPIC_SYNONYM", "PROPARTE_SYNONYM"}

\* The record with the identifier stored as it was passed, not as a str
SpeciesRecord_RawId(taxon_id, data) ==
    [taxonID |-> taxon_id,
     species |-> Get(data, "species", "Unknown"),
     genus |-> Get(data, "genus", "Unknown"),
     family |-> Get(data, "family", "Unknown"),
     order |-> Get(data, "order", "Unknown"),
     class |-> Get(data, "class", "Unknown"),
     scientificName |-> Get(data, "scientificName", UnknownText),
     vernacularName |-> Get(data, "vernacularName", "Unknown"),
     publishedIn |-> Get(data, "publishedIn", UnknownText),
     discovered |-> Discovered(Get(data, "publishedIn", UnknownText))]

\* The dict get_species_data returns for an accepted taxon
SpeciesRecord(taxon_id, data) ==
    [taxonID |-> PyStr(taxon_id),
     species |-> Get(data, "species", "Unknown"),
     genus |-> Get(data, "genus", "Unknown"),
     family |-> Get(data, "family", "Unknown"),
     order |-> Get(data, "order", "Unknown"),
     class |-> Get(data, "class", "Unknown"),
     scientificName |-> Get(data, "scientificName", UnknownText),
     vernacularName |-> Get(data, "vernacularName", "Unknown"),
     publishedIn |-> Get(data, "publishedIn", UnknownText),
     discovered |-> Discovered(Get(data, "publishedIn", UnknownText))]

----------------------------------------------------------------------------
(* The occurrence service and habitat extraction *)

CountryOf(key) ==
    CASE key = 1 -> "Chile" [] key = 2 -> "Peru" [] key = 901 -> "Fiji"
      [] key = 903 -> "Cuba" [] OTHER -> "Norway"

\* What GET /occurrence/search?taxonKey={key} may answer
OccurrenceResponses(key) ==
    IF key \in FixedKeys
    THEN {[status_code |-> 200,
           results |-> <<[taxonKey |-> key, country |-> CountryOf(key)]>>]}
    ELSE {[status_code |-> 500],
          [status_code |-> 200,
           results |-> <<[taxonKey |-> key, country |-> CountryOf(key)],
                         [taxonKey |-> key],
                         [taxonKey |-> key, country |-> CountryOf(key)]>>]}

get_occurrence_data(response) ==
    IF response.status_code = 200 THEN response.results ELSE <<>>

\* The set with the default country "Unknown" collected like any other
HabitatSet_KeepUnknown(occurrences) ==
    {Get(occurrences[p], "country", "Unknown") : p \in DOMAIN occurrences}

\* The set extract_habitats collects
HabitatSet(occurrences) ==
    {Get(occurrences[p], "country", "Unknown") : p \in DOMAIN occurrences} \ {"Unknown"}

\* list(habitats): the elements of the set in some order
extract_habitats(occurrences) ==
    LET S == HabitatSet(occurrences)
    IN {h \in [1..Cardinality(S) -> S] : \A a, b \in DOMAIN h : a # b => h[a] # h[b]}

----------------------------------------------------------------------------
(* The species filter *)

\* The filter that looks for a digit in the first character only
is_valid_species_FirstOnly(species_info) ==
    LET scientific_name == Get(species_info, "scientificName", <<>>)
    IN ~(StartsWithSH(scientific_name)
         \/ (scientific_name # <<>> /\ IsDigit(scientific_name[1])))

\* is_valid_species; a record without the key has the name ""
is_valid_species(species_info) ==
    LET scientific_name == Get(species_info, "scientificName", <<>>)
    IN ~(StartsWithSH(scientific_name)
         \/ \E p \in DOMAIN scientific_name : IsDigit(scientific_name[p]))

\* The gate that looks at the species only
CompletenessGate_SpeciesOnly(species_info) == species_info.species # "Unknown"

\* The gate with class checked as well
CompletenessGate_WithClass(species_info) ==
    /\ species_info.species # "Unknown"
    /\ species_info.family # "Unknown"
    /\ species_info.order # "Unknown"
    /\ species_info.class # "Unknown"

\* The completeness test of the driver
CompletenessGate(species_info) ==
    /\ species_info.species # "Unknown"
    /\ species_info.family # "Unknown"
    /\ species_info.order # "Unknown"
    /\ species_info.family # "Unknown"

----------------------------------------------------------------------------
(* The conservation assessment service (IUCN Red List) *)

Assessed(genus, species) ==
    [kind |-> "ok",
     assessments |-> <<[latest |-> FALSE, url |-> <<"old", genus, species>>,
                        year_published |-> "2011", possibly_extinct |-> TRUE,
                        possibly_extinct_in_the_wild |-> FALSE],
                       [latest |-> TRUE, url |-> <<"new", genus, species>>,
                        year_published |-> "2019", possibly_extinct |-> FALSE,
                        possibly_extinct_in_the_wild |-> FALSE]>>,
     taxon |-> [authority |-> "Hedw.",
                common_names |-> <<[name |-> "moss", main |-> TRUE]>>]]

NotAssessed == [kind |-> "ok", assessments |-> <<>>, taxon |-> EmptyDict]

\* What GET /taxa/scientific_name?genus_name=..&species_name=.. may answer
AssessmentResponses(genus, species) ==
    IF genus = Token(NameBulk, 1)
    THEN {NotAssessed}
    ELSE IF genus = Token(NameChain, 1)
    THEN {Assessed(genus, species)}
    ELSE {[kind |-> "error"], NotAssessed, Assessed(genus, species)}

Raised(exception) == [raise |-> exception]

\* next((a for a in assessments if a.get("latest")), None)
LatestOf(assessments) ==
    LET hits == {p \in DOMAIN assessments : Get(assessments[p], "latest", FALSE)}
    IN IF hits = {} THEN None
       ELSE assessments[CHOOSE p \in hits : \A q \in hits : p <= q]

\* next((a["name"] for a in common_names if a.get("main")), "Unknown")
MainName(common_names) ==
    LET hits == {p \in DOMAIN common_names : Get(common_names[p], "main", FALSE)}
    IN IF hits = {} THEN "Unknown"
       ELSE common_names[CHOOSE p \in hits : \A q \in hits : p <= q].name

\* get_iucn_data without the credential check: the request fails instead
get_iucn_data_NoKeyCheck(api_key, response) == None

\* get_iucn_data: what it returns or raises, given the credential and the answer
get_iucn_data(api_key, response) ==
    IF ~api_key THEN Raised("ValueError")
    ELSE IF response.kind = "error" THEN None
    ELSE IF response.assessments = <<>> THEN None
    ELSE LET latest == LatestOf(response.assessments)
             taxon == response.taxon
         IN [assessment_url |-> IF latest # None THEN latest.url ELSE <<>>,
             assessment_year |-> IF latest # None THEN latest.year_published ELSE "Unknown",
             possibly_extinct |-> IF latest # None THEN latest.possibly_extinct ELSE FALSE,
             possibly_extinct_in_the_wild |->
                 IF latest # None THEN latest.possibly_extinct_in_the_wild ELSE FALSE,
             authority |-> IF "authority" \in DOMAIN taxon /\ taxon.authority # ""
                           THEN taxon.authority ELSE "Unknown",
             vernacularName |-> IF "common_names" \in DOMAIN taxon
                                   /\ taxon.common_names # <<>>
                                THEN MainName(taxon.common_names) ELSE "Unknown"]

ConservationFields ==
    {"assessment_url", "assessment_year", "possibly_extinct",
     "possibly_extinct_in_the_wild", "authority"}

----------------------------------------------------------------------------
(* Files: text encoding, json.dump and json.load *)

DecodeError == <<-1>>

\* The bytes of one code point in UTF-8
UTF8Char(c) ==
    IF c < 128 THEN <<c>>
    ELSE IF c < 2048 THEN <<192 + (c \div 64), 128 + (c % 64)>>
    ELSE <<224 + (c \div 4096), 128 + ((c \div 64) % 64), 128 + (c % 64)>>

RECURSIVE UTF8(_)
\* str.encode("utf-8")
UTF8(s) == IF s = <<>> THEN <<>> ELSE UTF8Char(Head(s)) \o UTF8(Tail(s))

IsContinuation(b) == b \in 128..191

RECURSIVE DecodeUTF8(_)
\* bytes.decode("utf-8"), or DecodeError
DecodeUTF8(b) ==
    IF b = <<>> THEN <<>>
    ELSE LET n == IF b[1] < 128 THEN 1
                  ELSE IF b[1] \in 194..223 THEN 2
                  ELSE IF b[1] \in 224..239 THEN 3 ELSE 0
             good == /\ n > 0
                     /\ Len(b) >= n
                     /\ \A p \in 2..n : IsContinuation(b[p])
             c == IF n = 1 THEN b[1]
                  ELSE IF n = 2 THEN (b[1] - 192) * 64 + (b[2] - 128)
                  ELSE (b[1] - 224) * 4096 + (b[2] - 128) * 64 + (b[3] - 128)
             rest == IF good THEN DecodeUTF8(SubSeq(b, n + 1, Len(b))) ELSE DecodeError
         IN IF ~good \/ rest = DecodeError THEN DecodeError ELSE <<c>> \o rest

\* The code point cp1252 gives a byte, or -1 where it defines none
CP1252Char(b) ==
    IF b < 128 \/ b >= 160 THEN b
    ELSE CASE b = 128 -> 8364 [] b = 130 -> 8218 [] b = 131 -> 402 [] b = 132 -> 8222
           [] b = 133 -> 8230 [] b = 134 -> 8224 [] b = 135 -> 8225 [] b = 136 -> 710
           [] b = 137 -> 8240 [] b = 138 -> 352 [] b = 139 -> 8249 [] b = 140 -> 338
           [] b = 142 -> 381 [] b = 145 -> 8216 [] b = 146 -> 8217 [] b = 147 -> 8220
           [] b = 148 -> 8221 [] b = 149 -> 8226 [] b = 150 -> 8211 [] b = 151 -> 8212
           [] b = 152 -> 732 [] b = 153 -> 8482 [] b = 154 -> 353 [] b = 155 -> 8250
           [] b = 156 -> 339 [] b = 158 -> 382 [] b = 159 -> 376
           [] OTHER -> -1

\* bytes.decode("cp1252"), or DecodeError
DecodeCP1252(b) ==
    IF \E p \in DOMAIN b : CP1252Char(b[p]) = -1 THEN DecodeError
    ELSE [p \in DOMAIN b |-> CP1252Char(b[p])]

\* The encodings open(path, 'r') may use: the platform's preferred encoding
PreferredEncodings == {"utf-8", "cp1252"}

Decode(b, encoding) == IF encoding = "utf-8" THEN DecodeUTF8(b) ELSE DecodeCP1252(b)

\* The fields of a species dict that hold text as code points
TextFields == {"scientificName", "publishedIn", "discovered"}

AbsentFile == [kind |-> "absent"]
\* A file opened with mode "w" and not yet written
EmptyFile == [kind |-> "empty"]

\* The file write_to_json leaves: json.dump(data, f, ensure_ascii=False), utf-8.
\* shape is "list" for the species list and "dict" for the hierarchy, whose keys
\* are ASCII.
write_to_json(data, shape) ==
    [kind |-> "json", shape |-> shape,
     doc |-> IF shape = "list"
             THEN [p \in DOMAIN data |->
                      [k \in DOMAIN data[p] |->
                          IF k \in TextFields THEN UTF8(data[p][k]) ELSE data[p][k]]]
             ELSE data]

\* What a call gives: a value, None, or an exception
Returned(value) == [tag |-> "value", value |-> value]
ReturnedNone == [tag |-> "None"]
Raises(exception) == [tag |-> "raise", exception |-> exception]

\* load_json under the encoding the platform opens text files with: None for a
\* missing file and for one json.load cannot parse; a decoding error is not caught
load_json(file, encoding) ==
    IF file.kind = "absent" THEN ReturnedNone
    ELSE IF file.kind = "empty" THEN ReturnedNone
    ELSE IF file.shape = "dict" THEN Returned(file.doc)
    ELSE IF \E p \in DOMAIN file.doc : \E k \in DOMAIN file.doc[p] \cap TextFields :
                Decode(file.doc[p][k], encoding) = DecodeError
         THEN Raises("UnicodeDecodeError")
    ELSE Returned([p \in DOMAIN file.doc |->
                      [k \in DOMAIN file.doc[p] |->
                          IF k \in TextFields THEN Decode(file.doc[p][k], encoding)
                          ELSE file.doc[p][k]]])

\* The default whatever was loaded
OrDefault_Discard(result, default) == default

\* load_json(...) or default
OrDefault(result, default) ==
    IF result.tag = "None" THEN default
    ELSE IF DOMAIN result.value = {} THEN default
    ELSE result.value

----------------------------------------------------------------------------
(* The hierarchy and the merge *)

\* The insertion with the family's genera replaced, not added to
InsertPath_Fresh(h, class_name, order_name, family_name, genus_name) ==
    LET c == Get(h, class_name, EmptyDict)
        o == Get(c, order_name, EmptyDict)
    IN Put(h, class_name,
           Put(c, order_name, Put(o, family_name, Put(EmptyDict, genus_name, EmptyDict))))

\* The four "if name not in ...: ... = {}" insertions
InsertPath(h, class_name, order_name, family_name, genus_name) ==
    LET c == Get(h, class_name, EmptyDict)
        o == Get(c, order_name, EmptyDict)
        f == Get(o, family_name, EmptyDict)
        g == Get(f, genus_name, EmptyDict)
    IN Put(h, class_name, Put(c, order_name, Put(o, family_name, Put(f, genus_name, g))))

RECURSIVE build_taxonomic_hierarchy(_)
\* build_taxonomic_hierarchy: the same insertions for each record of a list in turn
build_taxonomic_hierarchy(species_list) ==
    IF species_list = <<>> THEN EmptyDict
    ELSE LET species == species_list[Len(species_list)]
         IN InsertPath(build_taxonomic_hierarchy(SubSeq(species_list, 1, Len(species_list) - 1)),
                       Get(species, "class", "Unknown"), Get(species, "order", "Unknown"),
                       Get(species, "family", "Unknown"), Get(species, "genus", "Unknown"))

\* The record with "del species_info["class"]" left out
Stripped_KeepClass(species_info) == Del(species_info, {"order", "family"})

\* The record as it stays in species_data: del class, order, family
Stripped(species_info) == Del(species_info, {"class", "order", "family"})

\* "%.2f" % (i / n), in hundredths: the nearest hundredth (no batch size of the
\* model puts i / n half way between two)
Progress(count, n) == (200 * count + n) \div (2 * n)

\* The flush one merge late
FlushDue_OneLate(count) == count % FlushEvery = 1

\* j % 50 == 0
FlushDue(count) == count % FlushEvery = 0

\* The guard that never finds the identifier
AlreadyProcessed_Never(taxon_id, processed) == FALSE

\* taxon_id in processed_ids
AlreadyProcessed(taxon_id, processed) == taxon_id \in processed

\* A checkpoint an earlier run left
PriorRecord ==
    Stripped(Put(SpeciesRecord(StrId(0), Complete(NameLong, "Funaria", PubEnd)),
                 "habitats", <<"Chile">>))
PriorHierarchy == InsertPath(EmptyDict, "Bryopsida", "Bryales", "Bryaceae", "Funaria")

NoCheckpoint == [species |-> AbsentFile, hierarchy |-> AbsentFile]
PriorCheckpoint ==
    [species |-> write_to_json(<<PriorRecord>>, "list"),
     hierarchy |-> write_to_json(PriorHierarchy, "dict")]

\* A checkpoint with a citation that begins with a capital A with acute accent,
\* and one whose species document a stopped flush left opened and not written
PubAccent == <<193, 32, 49, 56, 48, 49>>                 \* "\u00c1 1801"
AccentCheckpoint ==
    [species |-> write_to_json(<<Put(PriorRecord, "publishedIn", PubAccent)>>, "list"),
     hierarchy |-> write_to_json(PriorHierarchy, "dict")]
TruncatedCheckpoint ==
    [species |-> EmptyFile, hierarchy |-> write_to_json(PriorHierarchy, "dict")]

\* The varied taxa are answered alike, so an ID file stands for all those that
\* differ from it by a renaming of the taxa: the one in which taxon 1 comes first,
\* taxon 2 is the next new one, and so on
FirstUseInOrder(f) ==
    \A p \in DOMAIN f :
        \A k \in 1..(KeyOf(f[p]) - 1) : \E q \in 1..(p - 1) : KeyOf(f[q]) = k

\* The ID files: short ones over the varied taxa, long ones over the uniform taxa,
\* and ones that list the head of the fixed chain
ShortFiles ==
    UNION {{f \in [1..n -> {StrId(k) : k \in VariedKeys}] : FirstUseInOrder(f)}
           : n \in 0..MaxBatch}
LongFiles ==
    {[p \in 1..n |-> StrId(100 + p)] : n \in {FlushEvery, FlushEvery + 1}}
ChainFiles == {<<StrId(901)>>, <<StrId(903), StrId(901)>>, <<StrId(901), StrId(903)>>}

----------------------------------------------------------------------------
(* The program *)

VARIABLES
    id_file,            \* the lines of moss_taxonomy_ids.txt
    api_key,            \* whether IUCN_API_KEY is set
    gbif,               \* the taxon records fetched so far, by key
    disk,               \* the two JSON documents
    pc,                 \* the position in main()
    error,              \* the exception that ended the run, or "" for none
    taxonomy_ids, i, j, taxon_id,
    cur,                \* the argument of the running get_species_data call
    processed_ids, species_info, conservation_data,
    species_data, taxonomic_hierarchy,
    ret,                \* where the running flush returns to
    progress,           \* the values the "Progress:" lines have shown, in hundredths
    lookups,            \* how many times each key has been fetched
    calls,              \* get_species_data calls made for the current item
    visited_at_call,    \* processed_ids when the driver called for the current item
    loaded,             \* what load_json gave at start: <<list, hierarchy>>
    before,             \* the documents as they were when the running flush began
    writes,             \* completed write_to_json calls
    arg, result         \* the argument and the result of a function called on its own

vars == <<id_file, api_key, gbif, disk, pc, error, taxonomy_ids, i, j, taxon_id, cur,
          processed_ids, species_info, conservation_data, species_data,
          taxonomic_hierarchy, ret, progress, lookups, calls, visited_at_call, loaded,
          before, writes, arg, result>>

env == <<id_file, api_key>>
pure == <<arg, result>>
ghosts == <<lookups, calls, visited_at_call, loaded, before, writes>>

Init ==
    /\ \/ /\ id_file \in ShortFiles \cup LongFiles \cup ChainFiles
          /\ disk \in {NoCheckpoint, PriorCheckpoint}
       \/ /\ id_file \in ChainFiles
          /\ disk \in {AccentCheckpoint, TruncatedCheckpoint}
    /\ api_key \in BOOLEAN
    /\ gbif = EmptyDict
    /\ pc = "start"
    /\ error = ""
    /\ taxonomy_ids = <<>>
    /\ i = 0
    /\ j = 0
    /\ taxon_id = None
    /\ cur = None
    /\ processed_ids = {}
    /\ species_info = None
    /\ conservation_data = Unbound
    /\ species_data = <<>>
    /\ taxonomic_hierarchy = EmptyDict
    /\ ret = ""
    /\ progress = <<>>
    /\ lookups = [k \in VariedKeys \cup FixedKeys |-> 0]
    /\ calls = 0
    /\ visited_at_call = {}
    /\ loaded = <<<<>>, EmptyDict>>
    /\ before = disk
    /\ writes = 0
    /\ arg = None
    /\ result = None

\* main, lines 253-270: read the IDs, return when there are none, cap, load
Start ==
    /\ pc = "start"
    /\ IF id_file = <<>>
       THEN /\ pc' = "done"
            /\ UNCHANGED <<taxonomy_ids, species_data, taxonomic_hierarchy, loaded, error>>
       ELSE /\ taxonomy_ids' = SubSeq(id_file, 1, Min(BatchCap, Len(id_file)))
            /\ \E encoding \in PreferredEncodings :
                 LET s == load_json(disk.species, encoding)
                     h == load_json(disk.hierarchy, encoding)
                 IN IF s.tag = "raise" \/ h.tag = "raise"
                    THEN /\ pc' = "aborted"
                         /\ error' = "UnicodeDecodeError"
                         /\ UNCHANGED <<species_data, taxonomic_hierarchy, loaded>>
                    ELSE /\ pc' = "loop"
                         /\ species_data' = OrDefault(s, <<>>)
                         /\ taxonomic_hierarchy' = OrDefault(h, EmptyDict)
                         /\ loaded' = <<OrDefault(s, <<>>), OrDefault(h, EmptyDict)>>
                         /\ UNCHANGED error
    /\ UNCHANGED <<env, pure, progress, gbif, disk, i, j, taxon_id, cur, processed_ids,
                   species_info, conservation_data, ret, lookups, calls,
                   visited_at_call, before, writes>>

\* main, lines 272-276 and 332: take the next ID and call get_species_data, or
\* leave the loop for the final flush
NextItem ==
    /\ pc = "loop"
    /\ IF i < Len(taxonomy_ids)
       THEN /\ i' = i + 1
            /\ taxon_id' = taxonomy_ids[i + 1]
            /\ cur' = taxonomy_ids[i + 1]
            /\ calls' = 0
            /\ visited_at_call' = processed_ids
            /\ pc' = "resolve"
            /\ UNCHANGED <<ret, before>>
       ELSE /\ pc' = "open_species"
            /\ ret' = "done"
            /\ before' = disk
            /\ UNCHANGED <<i, taxon_id, cur, calls, visited_at_call>>
    /\ UNCHANGED <<env, pure, progress, gbif, disk, error, taxonomy_ids, j,
                   processed_ids, species_info, conservation_data, species_data,
                   taxonomic_hierarchy, lookups, loaded, writes>>

\* get_species_data, lines 56-111: one call; the recursive call of line 80 is the
\* last thing its caller does, so it is the next step with cur replaced
GetSpeciesData ==
    /\ pc = "resolve"
    /\ calls' = calls + 1
    /\ IF AlreadyProcessed(cur, processed_ids)
       THEN /\ species_info' = None
            /\ pc' = "filter"
            /\ UNCHANGED <<processed_ids, gbif, lookups, cur>>
       ELSE /\ processed_ids' = processed_ids \cup {cur}
            /\ lookups' = [lookups EXCEPT ![KeyOf(cur)] = @ + 1]
            /\ \E response \in (IF KeyOf(cur) \in DOMAIN gbif THEN {gbif[KeyOf(cur)]}
                                ELSE TaxonResponses(KeyOf(cur))) :
                 /\ gbif' = Put(gbif, KeyOf(cur), response)
                 /\ IF response.status_code # 200
                    THEN /\ species_info' = None
                         /\ pc' = "filter"
                         /\ UNCHANGED cur
                    ELSE IF IsSynonymStatus(Get(response.json, "taxonomicStatus", ""))
                    THEN IF Get(response.json, "acceptedKey", 0) # 0
                         THEN /\ cur' = IntId(response.json.acceptedKey)
                              /\ pc' = "resolve"
                              /\ UNCHANGED species_info
                         ELSE /\ species_info' = None
                              /\ pc' = "filter"
                              /\ UNCHANGED cur
                    ELSE /\ species_info' = SpeciesRecord(cur, response.json)
                         /\ pc' = "filter"
                         /\ UNCHANGED cur
    /\ UNCHANGED <<env, pure, progress, disk, error, taxonomy_ids, i, j, taxon_id,
                   conservation_data, species_data, taxonomic_hierarchy, ret,
                   visited_at_call, loaded, before, writes>>

\* main, lines 277-283: continue on None and on a placeholder name.  species_info
\* is assigned again before it is next read, so it is reset when the item ends.
Filter ==
    /\ pc = "filter"
    /\ IF species_info = None \/ ~is_valid_species(species_info)
       THEN /\ pc' = "loop"
            /\ species_info' = None
       ELSE /\ pc' = "iucn"
            /\ UNCHANGED species_info
    /\ UNCHANGED <<env, pure, progress, gbif, disk, error, taxonomy_ids, i, j,
                   taxon_id, cur, processed_ids, conservation_data, species_data,
                   taxonomic_hierarchy, ret, ghosts>>

\* main, lines 289-292, with conservation_data as line 288 left it or did not
Enrich(cd) ==
    IF cd = Unbound
    THEN /\ pc' = "aborted"
         /\ error' = "UnboundLocalError"
         /\ UNCHANGED <<species_info, conservation_data>>
    ELSE LET kept == IF "vernacularName" \notin DOMAIN species_info /\ Truthy(cd)
                     THEN Del(cd, {"vernacularName"}) ELSE cd
         IN /\ conservation_data' = kept
            /\ species_info' = IF Truthy(kept) THEN Update(species_info, kept)
                               ELSE species_info
            /\ pc' = "occ"
            /\ UNCHANGED error

\* main, lines 286-292: the assessment lookup for names of more than two tokens
Conservation ==
    /\ pc = "iucn"
    /\ IF TokenCount(species_info.scientificName) > 2
       THEN \E response \in AssessmentResponses(Token(species_info.scientificName, 1),
                                                Token(species_info.scientificName, 2)) :
              LET got == get_iucn_data(api_key, response)
              IN IF got = Raised("ValueError")
                 THEN /\ pc' = "aborted"
                      /\ error' = "ValueError"
                      /\ UNCHANGED <<species_info, conservation_data>>
                 ELSE Enrich(got)
       ELSE Enrich(conservation_data)
    /\ UNCHANGED <<env, pure, progress, gbif, disk, taxonomy_ids, i, j, taxon_id, cur,
                   processed_ids, species_data, taxonomic_hierarchy, ret, ghosts>>

\* main, lines 295-300: the habitats of the batch item's own ID
Occurrence ==
    /\ pc = "occ"
    /\ \E response \in OccurrenceResponses(KeyOf(taxon_id)) :
         \E habitats \in extract_habitats(get_occurrence_data(response)) :
            species_info' = Put(species_info, "habitats", habitats)
    /\ pc' = "gate"
    /\ UNCHANGED <<env, pure, progress, gbif, disk, error, taxonomy_ids, i, j,
                   taxon_id, cur, processed_ids, conservation_data, species_data,
                   taxonomic_hierarchy, ret, ghosts>>

\* main, lines 302-329: the completeness gate, the merge, the periodic flush and,
\* when no flush is due, the progress line
Gate ==
    /\ pc = "gate"
    /\ IF CompletenessGate(species_info)
       THEN /\ species_data' = Append(species_data, Stripped(species_info))
            /\ taxonomic_hierarchy' =
                   InsertPath(taxonomic_hierarchy,
                              Get(species_info, "class", "Unknown"),
                              Get(species_info, "order", "Unknown"),
                              Get(species_info, "family", "Unknown"),
                              Get(species_info, "genus", "Unknown"))
            /\ j' = j + 1
            /\ IF FlushDue(j + 1)
               THEN /\ pc' = "open_species"
                    /\ ret' = "loop"
                    /\ before' = disk
                    /\ UNCHANGED progress
               ELSE /\ pc' = "loop"
                    /\ progress' = Append(progress, Progress(i, Len(taxonomy_ids)))
                    /\ UNCHANGED <<ret, before>>
       ELSE /\ pc' = "loop"
            /\ progress' = Append(progress, Progress(i, Len(taxonomy_ids)))
            /\ UNCHANGED <<species_data, taxonomic_hierarchy, j, ret, before>>
    /\ species_info' = None
    /\ UNCHANGED <<env, pure, gbif, disk, error, taxonomy_ids, i, taxon_id, cur,
                   processed_ids, conservation_data, lookups, calls, visited_at_call,
                   loaded, writes>>

\* write_to_json, line 148: open(filename, "w") truncates the file
OpenForWrite ==
    /\ pc \in {"open_species", "open_hierarchy"}
    /\ IF pc = "open_species"
       THEN /\ disk' = [disk EXCEPT !.species = EmptyFile]
            /\ pc' = "dump_species"
       ELSE /\ disk' = [disk EXCEPT !.hierarchy = EmptyFile]
            /\ pc' = "dump_hierarchy"
    /\ UNCHANGED <<env, pure, progress, gbif, error, taxonomy_ids, i, j, taxon_id, cur,
                   processed_ids, species_info, conservation_data, species_data,
                   taxonomic_hierarchy, ret, ghosts>>

\* write_to_json, lines 149-150: json.dump and close; after the periodic flush
\* the item ends with the progress line of line 329
Dump ==
    /\ pc \in {"dump_species", "dump_hierarchy"}
    /\ IF pc = "dump_species"
       THEN /\ disk' = [disk EXCEPT !.species = write_to_json(species_data, "list")]
            /\ pc' = "open_hierarchy"
            /\ UNCHANGED progress
       ELSE /\ disk' = [disk EXCEPT !.hierarchy = write_to_json(taxonomic_hierarchy, "dict")]
            /\ pc' = ret
            /\ progress' = IF ret = "loop"
                           THEN Append(progress, Progress(i, Len(taxonomy_ids)))
                           ELSE progress
    /\ writes' = writes + 1
    /\ UNCHANGED <<env, pure, gbif, error, taxonomy_ids, i, j, taxon_id, cur,
                   processed_ids, species_info, conservation_data, species_data,
                   taxonomic_hierarchy, ret, lookups, calls, visited_at_call, loaded,
                   before>>

Next ==
    \/ Start
    \/ NextItem
    \/ GetSpeciesData
    \/ Filter
    \/ Conservation
    \/ Occurrence
    \/ Gate
    \/ OpenForWrite
    \/ Dump

Spec == Init /\ [][Next]_vars

----------------------------------------------------------------------------
(* The functions called on their own, each on an argument of a bounded set *)

\* Bounds of the arguments.
MaxName == 3
MaxOccurrences == 3

\* All str values of at most n characters of an alphabet
Texts(alphabet, n) == UNION {[1..k -> alphabet] : k \in 0..n}

\* "S", "H", "h", "a", " ", "2" and the superscript two
NameAlphabet == {83, 72, 104, 97, 32, 50, 178}

NamePlaceholder == <<83, 72, 49, 50, 51, 52, 53, 54>>
NameNumbered == <<83, 112, 104, 97, 103, 110, 117, 109, 32, 115, 112, 46, 32, 50>>
NamePlain == <<80, 111, 108, 121, 116, 114, 105, 99, 104, 117, 109, 32, 99, 111, 109, 109, 117, 110, 101>>

\* Records for is_valid_species: with a scientific name, and without the key
FilterArgs ==
    {[scientificName |-> name] :
         name \in Texts(NameAlphabet, MaxName) \cup {NamePlaceholder, NameNumbered, NamePlain}}
    \cup {[species |-> "sp"]}

PubHedwig == <<72, 101, 100, 119, 46, 44, 32, 83, 112, 46, 32, 77, 117, 115, 99, 46, 32, 70, 114, 111, 110, 100, 46, 58, 32, 49, 56, 48, 49>>
PubMueller == <<77, 252, 108, 108, 46, 32, 72, 97, 108, 46, 32, 40, 49, 56, 53, 48, 41>>
PubAnonymous == <<65, 110, 111, 110, 121, 109, 111, 117, 115, 44, 32, 117, 110, 112, 117, 98, 108, 105, 115, 104, 101, 100>>

\* How a citation may begin: "", "a ", "(12) ", "(12)", "(1a) ", "( 12 ) ", "() ", "(7)(8) ", "(12"
PubHeads ==
    {<<>>, <<97, 32>>, <<40, 49, 50, 41, 32>>, <<40, 49, 50, 41>>,
     <<40, 49, 97, 41, 32>>, <<40, 32, 49, 50, 32, 41, 32>>, <<40, 41, 32>>,
     <<40, 55, 41, 40, 56, 41, 32>>, <<40, 49, 50>>}

\* How it may go on: "", "1801", "18011", "801", "a1801", "_1801", ".1801", "ü1801", "(1850)", "1801)"
PubYears ==
    {<<>>, <<49, 56, 48, 49>>, <<49, 56, 48, 49, 49>>, <<56, 48, 49>>,
     <<97, 49, 56, 48, 49>>, <<95, 49, 56, 48, 49>>, <<46, 49, 56, 48, 49>>,
     <<252, 49, 56, 48, 49>>, <<40, 49, 56, 53, 48, 41>>, <<49, 56, 48, 49, 41>>}

\* How it may end: "", ".", a line break, " ", two line breaks
PubTails ==
    {<<>>, <<46>>, <<10>>, <<32>>, <<10, 10>>}

Citations ==
    {head \o year \o tail : head \in PubHeads, year \in PubYears, tail \in PubTails}
    \cup {PubHedwig, PubMueller, PubAnonymous}

\* Taxon records for the year of discovery: with a citation, and without one
DiscoveredArgs ==
    {Complete(NameLong, "Bryum", published) : published \in Citations}
    \cup {Del(Complete(NameLong, "Bryum", PubEnd), {"publishedIn"})}

\* One entry of an occurrence search: no country, or a country
OccurrenceEntries ==
    {[taxonKey |-> 1]}
    \cup {[taxonKey |-> 1, country |-> c] : c \in {"Unknown", "Chile", "Peru"}}

\* Answers of the occurrence search
OccurrenceArgs ==
    {[status_code |-> 500]}
    \cup {[status_code |-> 200, results |-> list] :
              list \in UNION {[1..k -> OccurrenceEntries] : k \in 0..MaxOccurrences}}

PureInit ==
    /\ \/ arg \in {[fn |-> "is_valid_species", species_info |-> a] : a \in FilterArgs}
       \/ arg \in {[fn |-> "get_species_data", data |-> a] : a \in DiscoveredArgs}
       \/ arg \in {[fn |-> "extract_habitats", response |-> a] : a \in OccurrenceArgs}
    /\ result = None
    /\ pc = "call"
    /\ id_file = <<>>
    /\ api_key = FALSE
    /\ disk = NoCheckpoint
    /\ gbif = EmptyDict
    /\ error = ""
    /\ taxonomy_ids = <<>>
    /\ i = 0
    /\ j = 0
    /\ taxon_id = None
    /\ cur = None
    /\ processed_ids = {}
    /\ species_info = None
    /\ conservation_data = Unbound
    /\ species_data = <<>>
    /\ taxonomic_hierarchy = EmptyDict
    /\ ret = ""
    /\ progress = <<>>
    /\ lookups = [k \in VariedKeys \cup FixedKeys |-> 0]
    /\ calls = 0
    /\ visited_at_call = {}
    /\ loaded = <<<<>>, EmptyDict>>
    /\ before = disk
    /\ writes = 0

program == <<env, gbif, disk, error, taxonomy_ids, i, j, taxon_id, cur, processed_ids,
             species_info, conservation_data, species_data, taxonomic_hierarchy, ret,
             progress, ghosts>>

\* is_valid_species, lines 136-142
IsValidSpeciesCall ==
    /\ pc = "call"
    /\ arg.fn = "is_valid_species"
    /\ result' = Returned(is_valid_species(arg.species_info))
    /\ pc' = "return"
    /\ UNCHANGED <<arg, program>>

\* get_species_data, lines 85-108: the record of an accepted taxon
SpeciesRecordCall ==
    /\ pc = "call"
    /\ arg.fn = "get_species_data"
    /\ result' = Returned(SpeciesRecord(StrId(1), arg.data))
    /\ pc' = "return"
    /\ UNCHANGED <<arg, program>>

\* main, lines 295-299: extract_habitats(get_occurrence_data(taxon_id))
ExtractHabitatsCall ==
    /\ pc = "call"
    /\ arg.fn = "extract_habitats"
    /\ \E habitats \in extract_habitats(get_occurrence_data(arg.response)) :
           result' = Returned(habitats)
    /\ pc' = "return"
    /\ UNCHANGED <<arg, program>>

PureNext ==
    \/ IsValidSpeciesCall
    \/ SpeciesRecordCall
    \/ ExtractHabitatsCall

PureSpec == PureInit /\ [][PureNext]_vars

----------------------------------------------------------------------------
(* What the properties speak of *)

InFlush == pc \in {"open_species", "dump_species", "open_hierarchy", "dump_hierarchy"}

\* The taxon record of a fetched key is a synonym that names an accepted taxon
PointsOn(key) ==
    /\ key \in DOMAIN gbif
    /\ gbif[key].status_code = 200
    /\ IsSynonymStatus(Get(gbif[key].json, "taxonomicStatus", ""))
    /\ Get(gbif[key].json, "acceptedKey", 0) # 0

\* The taxon record of a fetched key is not a synonym
IsAccepted(key) ==
    /\ key \in DOMAIN gbif
    /\ gbif[key].status_code = 200
    /\ ~IsSynonymStatus(Get(gbif[key].json, "taxonomicStatus", ""))

RECURSIVE AcceptedOf(_, _)
\* The accepted key at the end of the synonym chain of key, 0 when the fetched
\* records give none within fuel links
AcceptedOf(key, fuel) ==
    IF IsAccepted(key) THEN key
    ELSE IF fuel > 0 /\ PointsOn(key) THEN AcceptedOf(gbif[key].json.acceptedKey, fuel - 1)
    ELSE 0

RECURSIVE LinksFrom(_, _)
\* The synonym chain of key has at least fuel links
LinksFrom(key, fuel) ==
    fuel = 0 \/ (PointsOn(key) /\ LinksFrom(gbif[key].json.acceptedKey, fuel - 1))

\* The keys of all taxa of the model
AllKeys == VariedKeys \cup FixedKeys

\* The synonym chain of key runs into a cycle: it has more links than there are taxa
\* on it
OnCycle(key) ==
    IF key \in VariedKeys THEN LinksFrom(key, NumIds + 1) ELSE FALSE

\* get_species_data has just returned to the driver for the current batch item
Returned_To_Driver == pc = "filter"

----------------------------------------------------------------------------
(* C1: within one run no taxon is looked up twice, whether its identifier is   *)
(* reached as a line of the ID file or as the accepted key of a synonym.       *)
C1_LookupAtMostOnce == \A key \in DOMAIN lookups : lookups[key] <= 1

(* C2: for a batch item B whose record is a synonym with a chain of accepted   *)
(* keys ending at the accepted taxon A, A not visited when the driver calls    *)
(* for B: the call returns the record a call for A returns from an empty       *)
(* visited set, taxonID included.                                              *)
C2_SynonymYieldsAcceptedRecord ==
    LET b == KeyOf(taxon_id)
        a == AcceptedOf(b, Cardinality(AllKeys))
    IN (/\ Returned_To_Driver
        /\ PointsOn(b)
        /\ a # 0
        /\ StrId(a) \notin visited_at_call
        /\ IntId(a) \notin visited_at_call)
       => species_info = SpeciesRecord(StrId(a), gbif[a].json)

\* C2 witness: a two-link chain has been followed to an accepted taxon
C2_Witness ==
    /\ Returned_To_Driver
    /\ PointsOn(KeyOf(taxon_id))
    /\ PointsOn(gbif[KeyOf(taxon_id)].json.acceptedKey)
    /\ AcceptedOf(KeyOf(taxon_id), 3) # 0
    /\ IntId(AcceptedOf(KeyOf(taxon_id), 3)) \notin visited_at_call
    /\ species_info # None
    /\ species_info.taxonID = StrId(AcceptedOf(KeyOf(taxon_id), 3))

(* C3: a resolution makes finitely many calls, at most one per form of a       *)
(* taxon identifier and one more, and returns None when the synonym chain   *)
(* of the batch item runs into a cycle.                                        *)
C3_CycleEndsWithNone ==
    /\ calls <= NumIds + 2
    /\ (Returned_To_Driver /\ OnCycle(KeyOf(taxon_id))) => species_info = None

\* C3 witness: a resolution has gone round a cycle of two taxa and returned
C3_Witness ==
    /\ Returned_To_Driver
    /\ OnCycle(KeyOf(taxon_id))
    /\ gbif[KeyOf(taxon_id)].json.acceptedKey # KeyOf(taxon_id)
    /\ calls >= 4
    /\ species_info = None

\* What get_species_data returned for the current item, from the taxon records
Resolved ==
    IF species_info = None THEN None ELSE SpeciesRecord(cur, gbif[KeyOf(cur)].json)

\* The current item is admissible: resolved, a valid name, species, family and
\* order known
Admissible ==
    /\ Resolved # None
    /\ is_valid_species(Resolved)
    /\ Resolved.species # "Unknown"
    /\ Resolved.family # "Unknown"
    /\ Resolved.order # "Unknown"

\* A step that ends the current item
ItemEnds == pc \in {"filter", "gate"} /\ pc' \in {"loop", "open_species"}
\* ... with one record appended to species_data, or with species_data as it was
EndsMerged == Len(species_data') = Len(species_data) + 1 /\ j' = j + 1
EndsSkipped == species_data' = species_data /\ j' = j

\* The records this run appended
MergedRecords == SubSeq(species_data, Len(loaded[1]) + 1, Len(species_data))

\* What a later run loads from the two documents; <<>> when load_json raises
LoadPair(documents, encoding) ==
    LET s == load_json(documents.species, encoding)
        h == load_json(documents.hierarchy, encoding)
    IN IF s.tag = "raise" \/ h.tag = "raise" THEN <<>>
       ELSE <<OrDefault(s, <<>>), OrDefault(h, EmptyDict)>>

\* Equality of two dicts or lists, either of which may be empty
Same(x, y) == DOMAIN x = DOMAIN y /\ \A k \in DOMAIN x : x[k] = y[k]
SamePair(x, y) == Len(x) = 2 /\ Len(y) = 2 /\ Same(x[1], y[1]) /\ Same(x[2], y[2])

\* A flush has completed and nothing was merged since
JustFlushed == writes > 0 /\ ~InFlush /\ (pc = "done" \/ (pc = "loop" /\ FlushDue(j)))

C5_ConservationFromOwnLookup ==
    \A p \in DOMAIN MergedRecords :
        LET r == MergedRecords[p]
        IN (DOMAIN r \cap ConservationFields # {})
           => /\ TokenCount(r.scientificName) > 2
              /\ r.assessment_url = <<"new", Token(r.scientificName, 1),
                                      Token(r.scientificName, 2)>>

(* C6: with the credential configured no item ends the run: the driver never   *)
(* stops on an exception.                                                      *)
C6_NoItemAbortsTheBatch == api_key => pc # "aborted"

C8_FlushCount == pc = "done" => writes = 2 * ((j \div FlushEvery) + 1)

(* C8 as amended: a run over a non-empty ID list that completes with m merged  *)
(* records has made floor(m/50) + 1 flushes, one right after each 50th merge   *)
(* and one after the last item; a completed flush leaves on disk the loaded    *)
(* records followed by all records merged so far, and the hierarchy.           *)
C8_FlushCadence ==
    /\ (pc = "done" /\ id_file # <<>>) => writes = 2 * ((j \div FlushEvery) + 1)
    /\ pc \in {"loop", "resolve", "filter", "iucn", "occ", "gate"}
           => writes = 2 * (j \div FlushEvery)
    /\ pc # "start"
           => /\ Len(species_data) = Len(loaded[1]) + j
              /\ Same(SubSeq(species_data, 1, Len(loaded[1])), loaded[1])
    /\ JustFlushed
           => disk = [species |-> write_to_json(species_data, "list"),
                      hierarchy |-> write_to_json(taxonomic_hierarchy, "dict")]

\* C8 witness: a run from a checkpoint has completed with 51 merges and 2 flushes
C8_Witness ==
    /\ pc = "done"
    /\ j = FlushEvery + 1
    /\ writes = 4
    /\ Len(loaded[1]) = 1
    /\ Len(disk.species.doc) = FlushEvery + 2

(* C9: at every point of a flush the two documents load, as a pair, to what    *)
(* they loaded to before the flush or to the state being flushed.              *)
C9_FlushIsAtomic ==
    InFlush => \/ SamePair(LoadPair(disk, "utf-8"), LoadPair(before, "utf-8"))
               \/ SamePair(LoadPair(disk, "utf-8"), <<species_data, taxonomic_hierarchy>>)

(* C10: after a completed flush the two documents load to the species list     *)
(* and the hierarchy held in memory, whatever encoding the platform reads      *)
(* text files with.                                                            *)
C10_ReloadReconstructs ==
    JustFlushed => \A encoding \in PreferredEncodings :
                       SamePair(LoadPair(disk, encoding),
                                <<species_data, taxonomic_hierarchy>>)

----------------------------------------------------------------------------
\* The class/order/family/genus names the taxon lookup gave for a stored record
PathOf(record) ==
    LET data == gbif[KeyOf(record.taxonID)].json
    IN <<Get(data, "class", "Unknown"), Get(data, "order", "Unknown"),
         Get(data, "family", "Unknown"), Get(data, "genus", "Unknown")>>

\* The hierarchy has the path class/order/family/genus
HasPath(h, path) ==
    /\ path[1] \in DOMAIN h
    /\ path[2] \in DOMAIN h[path[1]]
    /\ path[3] \in DOMAIN h[path[1]][path[2]]
    /\ path[4] \in DOMAIN h[path[1]][path[2]][path[3]]

RankFields == {"family", "order", "class"}

(* C11: every record of the species list in memory, and every record of a      *)
(* species document on disk, has no family, order or class field; the ranks   *)
(* of each record this run merged are a path of the hierarchy.                 *)
C11_StoredRecordsAreStripped ==
    /\ \A p \in DOMAIN species_data : DOMAIN species_data[p] \cap RankFields = {}
    /\ disk.species.kind = "json"
           => \A p \in DOMAIN disk.species.doc :
                  DOMAIN disk.species.doc[p] \cap RankFields = {}
    /\ \A p \in DOMAIN MergedRecords : HasPath(taxonomic_hierarchy, PathOf(MergedRecords[p]))

\* C11 witness: a run from a checkpoint has flushed two merged records, one of
\* them enriched with an assessment
C11_Witness ==
    /\ pc = "done"
    /\ j = 2
    /\ Len(loaded[1]) = 1
    /\ disk.species.kind = "json"
    /\ Len(disk.species.doc) = 3
    /\ \E p \in DOMAIN MergedRecords : "assessment_url" \in DOMAIN MergedRecords[p]

(* C12: after each batch item, whatever its outcome, the driver has shown one  *)
(* more progress line, so after k items of a batch of n there are k lines, the *)
(* k-th showing k/n.                                                           *)
C12_ProgressAfterEveryItem ==
    pc \in {"loop", "done"}
    => /\ Len(progress) = i
       /\ \A k \in DOMAIN progress : progress[k] = Progress(k, Len(taxonomy_ids))

\* The class/order/family/genus paths of a hierarchy
Paths(h) ==
    UNION {UNION {UNION {{<<c, o, f, g>> : g \in DOMAIN h[c][o][f]}
                         : f \in DOMAIN h[c][o]}
                  : o \in DOMAIN h[c]}
           : c \in DOMAIN h}

\* Every branch of a hierarchy runs down to a genus, and a genus is a leaf
FullDepth(h) ==
    \A c \in DOMAIN h :
        /\ DOMAIN h[c] # {}
        /\ \A o \in DOMAIN h[c] :
               /\ DOMAIN h[c][o] # {}
               /\ \A f \in DOMAIN h[c][o] :
                      /\ DOMAIN h[c][o][f] # {}
                      /\ \A g \in DOMAIN h[c][o][f] : DOMAIN h[c][o][f][g] = {}

\* The merged records of this run as they were when merged, ranks included
MergedWithRanks ==
    [p \in DOMAIN MergedRecords |->
        [class |-> PathOf(MergedRecords[p])[1], order |-> PathOf(MergedRecords[p])[2],
         family |-> PathOf(MergedRecords[p])[3], genus |-> PathOf(MergedRecords[p])[4]]]

Reversed(seq) == [p \in DOMAIN seq |-> seq[Len(seq) + 1 - p]]

(* C13: after every merge and at the end of the run, the paths of the          *)
(* hierarchy are the paths of the loaded hierarchy and the path of every       *)
(* merged record, no more; every branch has the four levels; from an empty     *)
(* hierarchy it is what build_taxonomic_hierarchy gives for the merged         *)
(* records, taken in the order of the merges or in the reverse order.          *)
C13_HierarchyIsTheSetOfPaths ==
    (pc \in {"loop", "open_species", "done"} /\ id_file # <<>>)
    => /\ Paths(taxonomic_hierarchy)
              = Paths(loaded[2])
                    \cup {PathOf(MergedRecords[p]) : p \in DOMAIN MergedRecords}
       /\ FullDepth(taxonomic_hierarchy)
       /\ DOMAIN loaded[2] = {}
              => /\ Paths(build_taxonomic_hierarchy(MergedWithRanks))
                        = Paths(taxonomic_hierarchy)
                 /\ Paths(build_taxonomic_hierarchy(Reversed(MergedWithRanks)))
                        = Paths(taxonomic_hierarchy)
                 /\ FullDepth(build_taxonomic_hierarchy(Reversed(MergedWithRanks)))

\* C13 witness: two merges with the class, order and family of the loaded path and
\* two more genera have left one family with three genus leaves
C13_Witness ==
    /\ pc = "loop"
    /\ j = 2
    /\ DOMAIN taxonomic_hierarchy = {"Bryopsida"}
    /\ DOMAIN taxonomic_hierarchy["Bryopsida"] = {"Bryales"}
    /\ DOMAIN taxonomic_hierarchy["Bryopsida"]["Bryales"] = {"Bryaceae"}
    /\ DOMAIN taxonomic_hierarchy["Bryopsida"]["Bryales"]["Bryaceae"]
           = {"Funaria", "Bryum", "Pohlia"}

----------------------------------------------------------------------------
\* The scientific name of a record, "" when it has none
NameOf(record) == IF "scientificName" \in DOMAIN record THEN record.scientificName ELSE <<>>

\* The digits among the code points below 256: "0" to "9" and the superscripts
\* one, two and three
DigitChars == (48..57) \cup {185, 178, 179}

\* The name is a placeholder: it begins with "SH" or has a digit somewhere
Placeholder(name) ==
    \/ Len(name) >= 2 /\ SubSeq(name, 1, 2) = <<83, 72>>
    \/ \E p \in 1..Len(name) : name[p] \in DigitChars

(* C14: is_valid_species gives False exactly for the names that begin with     *)
(* "SH" or have a digit at some position, and True for every other name:       *)
(* False for "SH123456" and "Sphagnum sp. 2", True for "Polytrichum commune".  *)
C14_InvalidIffPlaceholder ==
    (pc = "return" /\ arg.fn = "is_valid_species")
    => /\ result = Returned(~Placeholder(NameOf(arg.species_info)))
       /\ NameOf(arg.species_info) \in {NamePlaceholder, NameNumbered}
              => result = Returned(FALSE)
       /\ NameOf(arg.species_info) = NamePlain => result = Returned(TRUE)

\* C14 witness: "Sphagnum sp. 2", with its digit at the end, was found invalid
C14_Witness ==
    /\ pc = "return"
    /\ arg.fn = "is_valid_species"
    /\ NameOf(arg.species_info) = NameNumbered
    /\ result = Returned(FALSE)

----------------------------------------------------------------------------
\* The elements of a list
Range(list) == {list[p] : p \in DOMAIN list}

\* The countries of the entries of an occurrence list that name one
KnownCountries(list) ==
    {list[p].country :
         p \in {q \in DOMAIN list : "country" \in DOMAIN list[q] /\ list[q].country # "Unknown"}}

\* The rearrangements of a list
Rearranged(list) ==
    {[p \in DOMAIN list |-> list[f[p]]] :
         f \in {g \in [DOMAIN list -> DOMAIN list] : \A a, b \in DOMAIN list : a # b => g[a] # g[b]}}

----------------------------------------------------------------------------
\* The citation of a taxon record, "Unknown" when it has none
CitationOf(data) == IF "publishedIn" \in DOMAIN data THEN data.publishedIn ELSE UnknownText

\* The citation ends with a token of four decimal digits: no letter, digit or
\* underscore comes right before them
EndsWithYear(s) ==
    /\ Len(s) >= 4
    /\ \A p \in (Len(s) - 3)..Len(s) : s[p] \in 48..57
    /\ (Len(s) = 4 \/ ~IsWordChar(s[Len(s) - 4]))

\* s[p] is "(", s[q] is ")" and there is a run of decimal digits between them
ParenRun(s, p, q) ==
    /\ s[p] = 40
    /\ s[q] = 41
    /\ q > p + 1
    /\ \A r \in (p + 1)..(q - 1) : s[r] \in 48..57

\* The year the claim gives a citation whose end-anchored part is tail
ClaimedYear(s, tail) ==
    IF EndsWithYear(tail) THEN SubSeq(tail, Len(tail) - 3, Len(tail))
    ELSE IF \E p, q \in 1..Len(s) : ParenRun(s, p, q)
    THEN LET p == CHOOSE x \in 1..Len(s) :
                      /\ \E q \in 1..Len(s) : ParenRun(s, x, q)
                      /\ \A y \in 1..(x - 1) : \A q \in 1..Len(s) : ~ParenRun(s, y, q)
             q == CHOOSE y \in 1..Len(s) : ParenRun(s, p, y)
         IN SubSeq(s, p + 1, q - 1)
    ELSE UnknownText

\* The citation without the line break that ends it, when one does
LineBreakAside(s) ==
    IF Len(s) > 0 /\ s[Len(s)] = 10 THEN SubSeq(s, 1, Len(s) - 1) ELSE s

(* C16 as claimed: the discovered year of an accepted record is the 4-digit    *)
(* token at the very end of the citation when there is one, otherwise the      *)
(* first parenthesized run of digits, otherwise "Unknown".                     *)
C16_DiscoveredYear ==
    (pc = "return" /\ arg.fn = "get_species_data")
    => result.value.discovered = ClaimedYear(CitationOf(arg.data), CitationOf(arg.data))

(* C16 as amended: the discovered year is the 4-digit token at the very end of *)
(* the citation, or right before a line break that ends the citation, when     *)
(* there is one; otherwise the first parenthesized run of digits; otherwise    *)
(* "Unknown".  The end-anchored token wins over a parenthesized run.           *)
C16_DiscoveredYearLineBreakAside ==
    (pc = "return" /\ arg.fn = "get_species_data")
    => result.value.discovered
           = ClaimedYear(CitationOf(arg.data), LineBreakAside(CitationOf(arg.data)))

\* C16 witness: "(12) 1801" and a line break gave 1801, not 12
C16_Witness ==
    /\ pc = "return"
    /\ arg.fn = "get_species_data"
    /\ CitationOf(arg.data) = <<40, 49, 50, 41, 32, 49, 56, 48, 49, 10>>
    /\ result.value.discovered = <<49, 56, 48, 49>>

----------------------------------------------------------------------------
\* list is made of the elements of prefix followed by others
IsPrefix(prefix, list) ==
    /\ Len(prefix) <= Len(list)
    /\ \A p \in 1..Len(prefix) : list[p] = prefix[p]

\* The records or the hierarchy a document holds, none for a file without one
DocOf(file) == IF file.kind = "json" THEN file.doc ELSE <<>>

\* The run has loaded the two documents
HasLoaded == id_file # <<>> /\ pc # "start" /\ error # "UnicodeDecodeError"

\* In memory and in every document a flush has written, the loaded records come
\* first and every loaded path is there
LoadedIsKept ==
    HasLoaded
    => /\ IsPrefix(loaded[1], species_data)
       /\ Paths(loaded[2]) \subseteq Paths(taxonomic_hierarchy)
       /\ writes = 0
              => /\ Len(loaded[1]) = Len(DocOf(before.species))
                 /\ \A p \in 1..Len(loaded[1]) :
                        loaded[1][p].taxonID = before.species.doc[p].taxonID
                 /\ Paths(loaded[2]) = Paths(DocOf(before.hierarchy))
       /\ (writes > 0 /\ disk.species.kind = "json")
              => /\ IsPrefix(write_to_json(loaded[1], "list").doc, disk.species.doc)
                 /\ IsPrefix(disk.species.doc, write_to_json(species_data, "list").doc)
       /\ (writes > 1 /\ disk.hierarchy.kind = "json")
              => /\ Paths(loaded[2]) \subseteq Paths(disk.hierarchy.doc)
                 /\ Paths(disk.hierarchy.doc) \subseteq Paths(taxonomic_hierarchy)

\* After the load the species list changes only by a merge, which puts the record
\* of the current batch item at its end
OnlyAppends ==
    (HasLoaded /\ species_data' # species_data)
    => /\ pc = "gate"
       /\ i' = i
       /\ species_info.taxonID = PyStr(cur)
       /\ species_data' = Append(species_data, Stripped(species_info))

(* C17: a run never removes or alters what it loaded: in every state and in    *)
(* every document a flush writes, the species list is the loaded list followed *)
(* by the records this run merged, each put at the end while its batch item    *)
(* was the current one, and the hierarchy has every path of the loaded one.    *)
C17_LoadedStateIsKept == [](LoadedIsKept) /\ [][OnlyAppends]_vars

\* C17 witness: a run from a checkpoint has ended with the loaded record first on
\* disk and two merged records after it
C17_Witness ==
    /\ pc = "done"
    /\ Len(loaded[1]) = 1
    /\ j = 2
    /\ disk.species.kind = "json"
    /\ Len(disk.species.doc) = 3
    /\ disk.species.doc[1].taxonID = StrId(0)
    /\ HasPath(disk.hierarchy.doc, <<"Bryopsida", "Bryales", "Bryaceae", "Funaria">>)

----------------------------------------------------------------------------
(* C18: a merged record whose taxon record has no vernacular name does not     *)
(* take one from the conservation assessment: its vernacularName stays the     *)
(* default of the resolver.                                                    *)
C18_NoCommonNameFromAssessment ==
    \A p \in DOMAIN MergedRecords :
        LET r == MergedRecords[p]
        IN "vernacularName" \notin DOMAIN gbif[KeyOf(r.taxonID)].json
           => r.vernacularName = "Unknown"

----------------------------------------------------------------------------
(* C19: the load never ends the run: no decoding error escapes load_json, and  *)
(* a document that is absent or cannot be decoded gives the empty list or the  *)
(* empty hierarchy, with which the run goes on.                                *)
C19_LoadNeverFails ==
    /\ error # "UnicodeDecodeError"
    /\ (HasLoaded /\ writes = 0)
           => /\ before.species.kind # "json" => DOMAIN loaded[1] = {}
              /\ before.hierarchy.kind # "json" => DOMAIN loaded[2] = {}

----------------------------------------------------------------------------
(* C20: no two records this run appended to the species list have the same     *)
(* taxonID.                                                                    *)
C20_NoDuplicateTaxonID ==
    \A p, q \in DOMAIN MergedRecords :
        p # q => MergedRecords[p].taxonID # MergedRecords[q].taxonID

----------------------------------------------------------------------------
\* The habitats an occurrence search for a key can give
HabitatsFor(key) ==
    UNION {extract_habitats(get_occurrence_data(response)) :
               response \in OccurrenceResponses(key)}

(* C21: the habitats of a merged record are what the occurrence search gives   *)
(* for the taxon of the record's own taxonID, also when the batch item was a   *)
(* synonym of that taxon.                                                      *)
C21_HabitatsOfOwnTaxon ==
    \A p \in DOMAIN MergedRecords :
        \E habitats \in HabitatsFor(KeyOf(MergedRecords[p].taxonID)) :
            Same(MergedRecords[p].habitats, habitats)

----------------------------------------------------------------------------
\* A step of the driver inside a batch item, before the item's end is decided
ItemStep == pc \in {"resolve", "iucn", "occ"} \/ (pc \in {"loop", "filter"} /\ ~ItemEnds)

\* The species list, the hierarchy, the counter of merged records and the two
\* documents stay as they are, and no write_to_json call is made
AggregationUnchanged ==
    /\ species_data' = species_data
    /\ taxonomic_hierarchy' = taxonomic_hierarchy
    /\ j' = j
    /\ disk' = disk
    /\ writes' = writes

(* C22: an item that ends skipped, because get_species_data returned None, the *)
(* name is a placeholder or the species, family or order is unknown, leaves    *)
(* the species list, the hierarchy, the counter of merged records and the two  *)
(* documents as they were before the item: no step inside an item changes      *)
(* them, the step that ends a skipped item does not, and it begins no flush.   *)
C22_SkippedItemChangesNothing ==
    [][/\ ItemStep => AggregationUnchanged
       /\ (ItemEnds /\ ~Admissible) => (AggregationUnchanged /\ pc' = "loop")]_vars

\* C22 witness: in a run from a checkpoint two items have reached the gate, one
\* was merged and one skipped, and the list holds the loaded record and one more
C22_Witness ==
    /\ pc = "loop"
    /\ i = 2
    /\ j = 1
    /\ Len(progress) = 2
    /\ Len(loaded[1]) = 1
    /\ Len(species_data) = 2
    /\ disk = PriorCheckpoint

====
